---- MODULE Spec2Model ----
(***************************************************************************)
(* Model of the vanity GPG key miner (src/src/main.rs): the parallel       *)
(* attempt loop of mine_keys, the pattern cache, the registry of found     *)
(* keys, the shared counters of Stats and the serialized persistence of    *)
(* save_key.  A fingerprint is a sequence of one-character strings.        *)
(***************************************************************************)
EXTENDS Integers, Sequences, FiniteSets, TLC

(* ---------------------------- bounds ----------------------------------- *)
\* number of threads of the rayon pool (rayon::current_num_threads())
NumWorkers == 2
\* largest attempt budget (Config.total_keys) a run is started with
MaxTotal == 3
\* largest attempt budget of the runs followed together with the reporter
MaxRunTotal == 2
\* largest number of whole seconds the reporter reads from the clock
MaxSecs == 2
\* longest total_keys argument given on the command line
MaxArgLen == 3

Workers == 1..NumWorkers

(* ------------------------- pattern catalog ----------------------------- *)
HEX_WORDS ==
    <<
      <<"D","E","A","D">>, <<"B","E","E","F">>, <<"C","A","F","E">>, <<"B","A","B","E">>,
      <<"F","A","C","E">>, <<"F","E","E","D">>, <<"F","0","0","D">>, <<"F","A","D","E">>,
      <<"A","C","E","0">>, <<"B","A","D","0">>, <<"D","A","D","0">>, <<"D","E","A","F">>,
      <<"D","E","E","D">>, <<"B","0","0","T">>, <<"C","0","D","E">>, <<"1","3","3","7">>,
      <<"D","0","0","M">>, <<"B","1","0","5">>, <<"C","A","1","1">>, <<"0","0","0","0">>,
      <<"1","1","1","1">>, <<"2","2","2","2">>, <<"3","3","3","3">>, <<"4","4","4","4">>,
      <<"5","5","5","5">>, <<"6","6","6","6">>, <<"7","7","7","7">>, <<"8","8","8","8">>,
      <<"9","9","9","9">>, <<"A","A","A","A">>, <<"B","B","B","B">>, <<"C","C","C","C">>,
      <<"D","D","D","D">>, <<"E","E","E","E">>, <<"F","F","F","F">>, <<"A","0","A","0">>,
      <<"B","1","B","1">>, <<"C","2","C","2">>, <<"D","3","D","3">>, <<"E","4","E","4">>,
      <<"F","5","F","5">>, <<"0","F","0","F">>, <<"1","E","1","E">>, <<"2","D","2","D">>,
      <<"3","C","3","C">>, <<"4","B","4","B">>, <<"5","A","5","A">>
    >>

HEX_DIGITS ==
    <<"0","1","2","3","4","5","6","7","8","9","A","B","C","D","E","F">>

HEX_DESCENDING ==
    <<"F","E","D","C","B","A","9","8","7","6","5","4","3","2","1","0">>

LITERALS ==
    << <<"D","E","A","D","B","E","E","F">>,
       <<"C","A","F","E","B","A","B","E">>,
       <<"F","E","E","D","F","A","C","E">> >>

\* the elements of a sequence, as a set
Range(s) == {s[i] : i \in 1..Len(s)}

\* str::repeat / iter::repeat(..).take(n): s concatenated n times
RECURSIVE Repeat(_, _)
Repeat(s, n) == IF n = 0 THEN <<>> ELSE s \o Repeat(s, n - 1)

\* chars().cycle().take(n): the first n characters of s repeated for ever
CycleTake(s, n) == [i \in 1..n |-> s[((i - 1) % Len(s)) + 1]]

\* generate_patterns: the vector is sorted and deduplicated and then
\* collected into a hash set by PatternCache::new, so it is kept as a set
generate_patterns ==
    LET pairs    == {w1 \o w2 : w1 \in Range(HEX_WORDS), w2 \in Range(HEX_WORDS)}
        literals == Range(LITERALS)
        runs     == {Repeat(<<digit>>, 8) : digit \in Range(HEX_DIGITS)}
        twos     == {Repeat(<<d[1], d[2]>>, 4) :
                       d \in {e \in Range(HEX_DIGITS) \X Range(HEX_DIGITS) : e[1] # e[2]}}
        ladders  == {CycleTake(HEX_DIGITS, 8), CycleTake(HEX_DESCENDING, 8)}
    IN  pairs \cup literals \cup runs \cup twos \cup ladders

PATTERN_CACHE == generate_patterns

None == <<>>

\* faulty variant: only the 32 characters that the slice needs are required
containsShort(key_id) ==
    IF Len(key_id) >= 32
    THEN LET target_section == SubSeq(key_id, 25, 32)
         IN  IF target_section \in PATTERN_CACHE THEN target_section ELSE None
    ELSE None

\* PatternCache::contains: Some(the [24, 32) window) or None
contains(key_id) ==
    IF Len(key_id) >= 40
    THEN LET target_section == SubSeq(key_id, 25, 32)
         IN  IF target_section \in PATTERN_CACHE THEN target_section ELSE None
    ELSE None

(* --------------------------- the generator ----------------------------- *)
\* 24 characters before the window and 8 after it: 40 in all, as the
\* fingerprints that Fingerprint::to_hex gives for the generated keys
FpLead == <<"D","E","A","D","B","E","E","F">> \o Repeat(<<"7","E">>, 8)
FpTail == <<"0","1","2","3","4","5","6","7">>

FP_DEADBEEF == FpLead \o <<"D","E","A","D","B","E","E","F">> \o FpTail
FP_ABABABAB == FpLead \o <<"A","B","A","B","A","B","A","B">> \o FpTail
\* a pattern at offset 0 and at offset 32, but none in the window
FP_PLAIN    == FpLead \o <<"1","2","3","4","5","6","7","8">> \o FpTail

Fingerprints == {FP_DEADBEEF, FP_ABABABAB, FP_PLAIN}

\* generate_key: Ok((cert, key_id)) or Err; the certificate is identified
\* with its fingerprint
generate_key ==
    {[ok |-> TRUE, key_id |-> f] : f \in Fingerprints}
        \cup {[ok |-> FALSE, key_id |-> None]}

(* ----------------------------- the state ------------------------------- *)
VARIABLES
    total_keys,      \* Config.total_keys
    keys_checked,    \* Stats.keys_checked
    keys_found,      \* Stats.keys_found
    FOUND_KEYS,      \* the DashSet of matched fingerprints
    LOG_MUTEX,       \* 0 when free, else the worker holding the guard _lock
    nextSlot,        \* slots of 0..total_keys already handed out by par_bridge
    stopped,         \* try_for_each saw a closure return Err
    run,             \* "mining", or the result mine_keys returned
    pc,              \* per worker: the line of the closure it is about to run
    key_id,          \* per worker: fingerprint of the generated certificate
    pattern,         \* per worker: the matched pattern
    found,           \* per worker: the index passed to save_key
    call,            \* per worker: position of its save_key call in saves
    public_keys,     \* public_key_<index>.asc files
    private_keys,    \* private_key_<index>.asc files
    found_keys_txt,  \* the lines of found_keys.txt, in the order appended
    stderr,          \* number of "Error saving key" lines printed
    saves,           \* history: the save_key calls made, with their results
    inserts,         \* history: per fingerprint, FOUND_KEYS.insert calls and true returns
    attempts,        \* history: generator requests, successes, failures, skipped slots
    args,            \* main: the command line, args[1] the program name
    main,            \* main: the position of the main thread
    rpc,             \* display_progress: the line the reporter is about to run
    rcurrent,        \* display_progress: current, the value of keys_checked it last read
    pb,              \* display_progress: what the progress bar shows
    tested,          \* PatternCache::contains: the key_id it is called with
    hit              \* PatternCache::contains: the value it returned

shared == <<keys_checked, keys_found, FOUND_KEYS, LOG_MUTEX,
            public_keys, private_keys, found_keys_txt, stderr>>
files  == <<public_keys, private_keys, found_keys_txt>>
locals == <<key_id, pattern, found, call>>
reporter == <<rpc, rcurrent, pb>>
\* the state the closure of mine_keys does not write
outside == <<total_keys, args, main, reporter, tested, hit>>
vars   == <<args, main, reporter, tested, hit, total_keys, keys_checked, keys_found, FOUND_KEYS, LOG_MUTEX, nextSlot,
            stopped, run, pc, key_id, pattern, found, call, public_keys,
            private_keys, found_keys_txt, stderr, saves, inserts, attempts>>

(* ------------------------ primitive operations ------------------------- *)
\* AtomicUsize::load(Ordering::Relaxed): the latest value or an older one
\* of the counter, which only ever grows by one
RelaxedLoad(counter) == 0..counter

\* faulty variants of fetch_add: the increment is lost (a separate load and
\* store), or the value after the increment is returned
fetch_add_lost(counter) == [prev |-> counter, new |-> counter]
fetch_add_post(counter) == [prev |-> counter + 1, new |-> counter + 1]

\* AtomicUsize::fetch_add(1, Ordering::Relaxed): one atomic read-modify-write
fetch_add(counter) == [prev |-> counter, new |-> counter + 1]

\* faulty variants of the registry: every insert reports a first insertion,
\* or the value is reported but not kept
DashSetInsertAlwaysNew(set, value) == [set |-> set \cup {value}, new |-> TRUE]
DashSetInsertForget(set, value) == [set |-> set, new |-> value \notin set]

\* DashSet::insert: true iff the value was not in the set
DashSetInsert(set, value) ==
    [set |-> set \cup {value}, new |-> value \notin set]

\* faulty variant: save_key without the exclusive section
MutexNeverHeld(mutex) == TRUE

\* Mutex::lock returns once no other guard is alive
MutexFree(mutex) == mutex = 0

\* faulty variant: the guard is leaked on return (mem::forget(_lock))
DropGuardLeaked(mutex) == mutex

\* line 172: _lock goes out of scope on every return of save_key, also on
\* the early returns of the ? operator, and the mutex is unlocked
DropGuard(mutex) == 0

\* faulty variant: the index is left out of the file name
WriteFileOneName(dir, index, id, complete) ==
    {f \in dir : f.index # 0}
        \cup {[index |-> 0, key_id |-> id, complete |-> complete]}

\* File::create(path) followed by serialize and flush: the file of that
\* path is replaced
WriteFile(dir, index, id, complete) ==
    {f \in dir : f.index # index}
        \cup {[index |-> index, key_id |-> id, complete |-> complete]}

\* the line written to found_keys.txt
LogLine(index, id, pat, complete) ==
    [index |-> index, key_id |-> id, pattern |-> pat, complete |-> complete]

\* faulty variants: the closure returns right after save_key without counting
\* the attempt, or it propagates the error of save_key (save_key(..)?)
HandleSaveResultSkipCount(result) == [next |-> "idle", ret |-> "Ok"]
HandleSaveResultPropagate(result) ==
    IF result = "Err" THEN [next |-> "idle", ret |-> "Err"]
                      ELSE [next |-> "count", ret |-> "Ok"]

\* mine_keys, lines 196-203: an error of save_key is printed, the attempt
\* is still counted and the closure returns Ok(())
HandleSaveResult(result) == [next |-> "count", ret |-> "Ok"]

\* faulty variant: a failed generation is counted like a successful one
AfterGenerateCountsErr(ok, pat) ==
    IF pat = None THEN "count" ELSE "insert"

\* mine_keys, lines 191-202: where the closure goes after generate_key.
\* Err(_) falls through to Ok(()) at line 203, a fingerprint without a
\* pattern goes to the count of line 201, a hit to the insert of line 193
AfterGenerate(ok, pat) ==
    IF ~ok THEN "idle" ELSE IF pat = None THEN "count" ELSE "insert"

\* faulty variant: the inclusive range 0..=total_keys
SlotLeftInclusive(next, total) == next <= total

\* the slots par_bridge hands out: the range 0..total_keys
SlotLeft(next, total) == next < total

(* ------------------------------- Init ---------------------------------- *)
Init ==
    /\ total_keys \in 0..MaxTotal
    /\ keys_checked = 0
    /\ keys_found = 0
    /\ FOUND_KEYS = {}
    /\ LOG_MUTEX = 0
    /\ nextSlot = 0
    /\ stopped = FALSE
    /\ run = "mining"
    /\ pc = [w \in Workers |-> "idle"]
    /\ key_id = [w \in Workers |-> None]
    /\ pattern = [w \in Workers |-> None]
    /\ found = [w \in Workers |-> 0]
    /\ call = [w \in Workers |-> 0]
    /\ public_keys = {}
    /\ private_keys = {}
    /\ found_keys_txt = <<>>
    /\ stderr = 0
    /\ saves = <<>>
    /\ inserts = [f \in Fingerprints |-> [calls |-> 0, trues |-> 0]]
    /\ attempts = [requests |-> 0, ok |-> 0, err |-> 0, skipped |-> 0]
    /\ args = <<>>
    /\ main = "mine_keys"
    /\ rpc = "while"
    /\ rcurrent = 0
    /\ pb = [pos |-> 0, speed |-> 0, found |-> 0, secs |-> 0, msg |-> ""]
    /\ tested = None
    /\ hit = [called |-> FALSE, ret |-> None]

(* ------------------------------ actions -------------------------------- *)
\* par_bridge hands the next slot of 0..total_keys to a free worker
TakeSlot(w) ==
    /\ run = "mining"
    /\ pc[w] = "idle"
    /\ ~stopped
    /\ SlotLeft(nextSlot, total_keys)
    /\ nextSlot' = nextSlot + 1
    /\ pc' = [pc EXCEPT ![w] = "check"]
    /\ UNCHANGED <<outside, shared, stopped, run, locals, saves, inserts, attempts>>

\* lines 186-189: the budget check at the start of a slot
CheckBudget(w) ==
    /\ pc[w] = "check"
    /\ \E current \in RelaxedLoad(keys_checked) :
         IF current >= total_keys
         THEN /\ pc' = [pc EXCEPT ![w] = "idle"]
              /\ attempts' = [attempts EXCEPT !.skipped = @ + 1]
         ELSE /\ pc' = [pc EXCEPT ![w] = "generate"]
              /\ UNCHANGED attempts
    /\ UNCHANGED <<outside, shared, nextSlot, stopped, run, locals, saves, inserts>>

\* lines 191-192: generate_key and the pattern test
Generate(w) ==
    /\ pc[w] = "generate"
    /\ \E r \in generate_key :
         /\ IF r.ok
            THEN /\ attempts' = [attempts EXCEPT !.requests = @ + 1, !.ok = @ + 1]
                 /\ key_id' = [key_id EXCEPT ![w] = r.key_id]
                 /\ pattern' = [pattern EXCEPT ![w] = contains(r.key_id)]
            ELSE /\ attempts' = [attempts EXCEPT !.requests = @ + 1, !.err = @ + 1]
                 /\ UNCHANGED <<key_id, pattern>>
         /\ pc' = [pc EXCEPT ![w] = AfterGenerate(r.ok, contains(r.key_id))]
    /\ UNCHANGED <<outside, shared, nextSlot, stopped, run, found, call, saves, inserts>>

\* line 193: FOUND_KEYS.insert(key_id.clone())
Insert(w) ==
    /\ pc[w] = "insert"
    /\ LET r == DashSetInsert(FOUND_KEYS, key_id[w]) IN
         /\ FOUND_KEYS' = r.set
         /\ inserts' = [inserts EXCEPT ![key_id[w]] =
                          [calls |-> @.calls + 1,
                           trues |-> @.trues + (IF r.new THEN 1 ELSE 0)]]
         /\ pc' = [pc EXCEPT ![w] = IF r.new THEN "fetch_add" ELSE "count"]
    /\ UNCHANGED <<outside, keys_checked, keys_found, LOG_MUTEX, files, stderr,
                   nextSlot, stopped, run, locals, saves, attempts>>

\* lines 194-196: the index is taken from keys_found, the match is
\* announced and save_key is called with that index
FetchAddFound(w) ==
    /\ pc[w] = "fetch_add"
    /\ LET r == fetch_add(keys_found) IN
         /\ keys_found' = r.new
         /\ found' = [found EXCEPT ![w] = r.prev]
         /\ saves' = Append(saves, [index |-> r.prev, key_id |-> key_id[w],
                                    pattern |-> pattern[w], result |-> "running"])
    /\ call' = [call EXCEPT ![w] = Len(saves) + 1]
    /\ pc' = [pc EXCEPT ![w] = "lock"]
    /\ UNCHANGED <<outside, keys_checked, FOUND_KEYS, LOG_MUTEX, files, stderr,
                   nextSlot, stopped, run, key_id, pattern, inserts, attempts>>

\* line 144: let _lock = LOG_MUTEX.lock()
Lock(w) ==
    /\ pc[w] = "lock"
    /\ MutexFree(LOG_MUTEX)
    /\ LOG_MUTEX' = w
    /\ pc' = [pc EXCEPT ![w] = "public"]
    /\ UNCHANGED <<outside, keys_checked, keys_found, FOUND_KEYS, files, stderr,
                   nextSlot, stopped, run, locals, saves, inserts, attempts>>

\* save_key returns: the guard is dropped, and lines 196-203 of the
\* closure handle the result
SaveReturn(w, result) ==
    /\ LOG_MUTEX' = DropGuard(LOG_MUTEX)
    /\ saves' = [saves EXCEPT ![call[w]].result = result]
    /\ stderr' = stderr + (IF result = "Err" THEN 1 ELSE 0)
    /\ pc' = [pc EXCEPT ![w] = HandleSaveResult(result).next]
    /\ stopped' = (stopped \/ HandleSaveResult(result).ret = "Err")

\* faulty variant: an error of the public key write is ignored (no ?), and
\* save_key goes on to the private key
WritePublicIgnoresError(w) ==
    /\ pc[w] = "public"
    /\ \/ public_keys' = WriteFile(public_keys, found[w], key_id[w], TRUE)
       \/ UNCHANGED public_keys
       \/ public_keys' = WriteFile(public_keys, found[w], key_id[w], FALSE)
    /\ pc' = [pc EXCEPT ![w] = "private"]
    /\ UNCHANGED <<outside, keys_checked, keys_found, FOUND_KEYS, private_keys,
                   found_keys_txt, nextSlot, run, locals, inserts, attempts,
                   LOG_MUTEX, saves, stderr, stopped>>

\* lines 146-149: public_key_<index>.asc
WritePublic(w) ==
    /\ pc[w] = "public"
    /\ \/ /\ public_keys' = WriteFile(public_keys, found[w], key_id[w], TRUE)
          /\ pc' = [pc EXCEPT ![w] = "private"]
          /\ UNCHANGED <<LOG_MUTEX, saves, stderr, stopped>>
       \/ \* File::create fails
          /\ UNCHANGED public_keys
          /\ SaveReturn(w, "Err")
       \/ \* serialize or flush fails after the file was created
          /\ public_keys' = WriteFile(public_keys, found[w], key_id[w], FALSE)
          /\ SaveReturn(w, "Err")
    /\ UNCHANGED <<outside, keys_checked, keys_found, FOUND_KEYS, private_keys,
                   found_keys_txt, nextSlot, run, locals, inserts, attempts>>

\* lines 151-154: private_key_<index>.asc
WritePrivate(w) ==
    /\ pc[w] = "private"
    /\ \/ /\ private_keys' = WriteFile(private_keys, found[w], key_id[w], TRUE)
          /\ pc' = [pc EXCEPT ![w] = "log"]
          /\ UNCHANGED <<LOG_MUTEX, saves, stderr, stopped>>
       \/ /\ UNCHANGED private_keys
          /\ SaveReturn(w, "Err")
       \/ /\ private_keys' = WriteFile(private_keys, found[w], key_id[w], FALSE)
          /\ SaveReturn(w, "Err")
    /\ UNCHANGED <<outside, keys_checked, keys_found, FOUND_KEYS, public_keys,
                   found_keys_txt, nextSlot, run, locals, inserts, attempts>>

\* lines 156-171: the line appended to found_keys.txt
AppendLog(w) ==
    /\ pc[w] = "log"
    /\ \/ /\ found_keys_txt' =
                Append(found_keys_txt, LogLine(found[w], key_id[w], pattern[w], TRUE))
          /\ SaveReturn(w, "Ok")
       \/ \* the file cannot be opened
          /\ UNCHANGED found_keys_txt
          /\ SaveReturn(w, "Err")
       \/ \* the flush fails after part of the line was written
          /\ found_keys_txt' =
                Append(found_keys_txt, LogLine(found[w], key_id[w], pattern[w], FALSE))
          /\ SaveReturn(w, "Err")
    /\ UNCHANGED <<outside, keys_checked, keys_found, FOUND_KEYS, public_keys,
                   private_keys, nextSlot, run, locals, inserts, attempts>>

\* lines 201-203: the attempt is counted and the closure returns Ok(())
Count(w) ==
    /\ pc[w] = "count"
    /\ keys_checked' = fetch_add(keys_checked).new
    /\ pc' = [pc EXCEPT ![w] = "idle"]
    /\ key_id' = [key_id EXCEPT ![w] = None]
    /\ pattern' = [pattern EXCEPT ![w] = None]
    /\ found' = [found EXCEPT ![w] = 0]
    /\ call' = [call EXCEPT ![w] = 0]
    /\ UNCHANGED <<outside, keys_found, FOUND_KEYS, LOG_MUTEX, files, stderr,
                   nextSlot, stopped, run, saves, inserts, attempts>>

\* lines 205-207: try_for_each is over and mine_keys returns
Finish ==
    /\ run = "mining"
    /\ \A w \in Workers : pc[w] = "idle"
    /\ stopped \/ ~SlotLeft(nextSlot, total_keys)
    /\ run' = IF stopped THEN "Err" ELSE "Ok"
    /\ UNCHANGED <<outside, shared, nextSlot, stopped, pc, locals, saves,
                   inserts, attempts>>

Next ==
    \/ \E w \in Workers : TakeSlot(w)
    \/ \E w \in Workers : CheckBudget(w)
    \/ \E w \in Workers : Generate(w)
    \/ \E w \in Workers : Insert(w)
    \/ \E w \in Workers : FetchAddFound(w)
    \/ \E w \in Workers : Lock(w)
    \/ \E w \in Workers : WritePublic(w)
    \/ \E w \in Workers : WritePrivate(w)
    \/ \E w \in Workers : AppendLog(w)
    \/ \E w \in Workers : Count(w)
    \/ Finish

Spec == Init /\ [][Next]_vars

\* the steps of one worker thread of the pool
WorkerStep(w) ==
    \/ TakeSlot(w) \/ CheckBudget(w) \/ Generate(w) \/ Insert(w)
    \/ FetchAddFound(w) \/ Lock(w) \/ WritePublic(w) \/ WritePrivate(w)
    \/ AppendLog(w) \/ Count(w)

\* every thread of the pool, and the thread that called mine_keys, is
\* scheduled again and again while it can take a step
FairSpec ==
    Spec /\ (\A w \in Workers : WF_vars(WorkerStep(w))) /\ WF_vars(Finish)

(* ----------------------- the progress reporter ------------------------- *)
\* the state of the worker pool, which the reporter and main only read
pool == <<keys_checked, keys_found, FOUND_KEYS, LOG_MUTEX, nextSlot, stopped, run,
          pc, key_id, pattern, found, call, public_keys, private_keys,
          found_keys_txt, stderr, saves, inserts, attempts>>

\* a relaxed load by a thread that has already read the value seen: the
\* reads of one thread never go back in the history of the counter
LoadAfter(counter, seen) == {v \in RelaxedLoad(counter) : v >= seen}

\* faulty variant: the division by max(1, elapsed seconds)
SpeedMaxOne(current, secs) == current \div (IF secs > 1 THEN secs ELSE 1)

\* lines 225-229: current as u64 / elapsed.as_secs(), or 0 in the first second
Speed(current, secs) == IF secs > 0 THEN current \div secs ELSE 0

\* line 219: the loop test, and line 235 when it fails; ProgressBar::finish
\* moves the bar to its length
ReporterWhile ==
    /\ main = "mine_keys"
    /\ rpc = "while"
    /\ \E checked \in LoadAfter(keys_checked, rcurrent) :
         IF checked < total_keys
         THEN /\ rpc' = "current"
              /\ UNCHANGED pb
         ELSE /\ rpc' = "done"
              /\ pb' = [pb EXCEPT !.pos = total_keys, !.msg = "Done!"]
    /\ UNCHANGED <<total_keys, args, main, rcurrent, tested, hit, pool>>

\* line 220: let current = stats.keys_checked.load(Relaxed)
ReporterCurrent ==
    /\ main = "mine_keys"
    /\ rpc = "current"
    /\ rcurrent' \in LoadAfter(keys_checked, rcurrent)
    /\ rpc' = "found"
    /\ UNCHANGED <<total_keys, args, main, pb, tested, hit, pool>>

\* lines 221-232: the load of keys_found, the position, the speed from the
\* whole seconds elapsed, the message, and the sleep of 100 ms
ReporterShow ==
    /\ main = "mine_keys"
    /\ rpc = "found"
    /\ \E shown \in LoadAfter(keys_found, pb.found), secs \in pb.secs..MaxSecs :
         pb' = [pos |-> rcurrent, speed |-> Speed(rcurrent, secs), found |-> shown,
                secs |-> secs, msg |-> "progress"]
    /\ rpc' = "while"
    /\ UNCHANGED <<total_keys, args, main, rcurrent, tested, hit, pool>>

\* lines 274-276: mine_keys has returned and main returns without joining
\* the reporter thread; the process ends, and the reporter with it
MainReturn ==
    /\ main = "mine_keys"
    /\ run # "mining"
    /\ main' = "exit"
    /\ UNCHANGED <<total_keys, args, reporter, tested, hit, pool>>

NextRun ==
    \/ Next
    \/ ReporterWhile
    \/ ReporterCurrent
    \/ ReporterShow
    \/ MainReturn

InitRun == Init /\ total_keys <= MaxRunTotal

\* the worker pool together with the reporter thread and main
SpecRun == InitRun /\ [][NextRun]_vars

(* ---------------------- the pattern test alone ------------------------- *)
\* the worker pool and the reporter before anything has run
Idle ==
    /\ keys_checked = 0 /\ keys_found = 0 /\ FOUND_KEYS = {} /\ LOG_MUTEX = 0
    /\ nextSlot = 0 /\ stopped = FALSE /\ run = "mining"
    /\ pc = [w \in Workers |-> "idle"]
    /\ key_id = [w \in Workers |-> None]
    /\ pattern = [w \in Workers |-> None]
    /\ found = [w \in Workers |-> 0]
    /\ call = [w \in Workers |-> 0]
    /\ public_keys = {} /\ private_keys = {} /\ found_keys_txt = <<>>
    /\ stderr = 0 /\ saves = <<>>
    /\ inserts = [f \in Fingerprints |-> [calls |-> 0, trues |-> 0]]
    /\ attempts = [requests |-> 0, ok |-> 0, err |-> 0, skipped |-> 0]
    /\ rpc = "while" /\ rcurrent = 0
    /\ pb = [pos |-> 0, speed |-> 0, found |-> 0, secs |-> 0, msg |-> ""]

\* windows given to contains: every pattern of the catalog, and some
\* strings that are not in it
TestWindows ==
    PATTERN_CACHE \cup
      { <<"1","2","3","4","5","6","7","8">>, <<"D","E","A","D","B","E","E","E">>,
        <<"E","A","D","B","E","E","F","0">>, <<"G","G","G","G","G","G","G","G">> }

\* lengths and window offsets of the strings given to contains
TestLengths == {0, 8, 24, 31, 32, 39, 40, 41, 48}
TestOffsets == {23, 24, 25}

\* the strings given to contains: a window at or next to offset 24,
\* cut to a length below, at or above 40
TestKeys ==
    { SubSeq(Repeat(<<"7">>, off) \o w \o Repeat(<<"E">>, 17), 1, n) :
        w \in TestWindows, off \in TestOffsets, n \in TestLengths }

InitContains ==
    /\ Idle
    /\ total_keys = 0
    /\ args = <<>>
    /\ main = "contains"
    /\ tested \in TestKeys
    /\ hit = [called |-> FALSE, ret |-> None]

\* lines 64-72: one call of PATTERN_CACHE.contains
ContainsCall ==
    /\ main = "contains"
    /\ ~hit.called
    /\ hit' = [called |-> TRUE, ret |-> contains(tested)]
    /\ UNCHANGED <<total_keys, args, main, reporter, tested, pool>>

NextContains == ContainsCall

SpecContains == InitContains /\ [][NextContains]_vars

(* ------------------------ the command line ----------------------------- *)
DEFAULT_TOTAL_KEYS == 2000000

DIGITS == <<"0","1","2","3","4","5","6","7","8","9">>

\* the value of a sequence of decimal digits
RECURSIVE DecimalValue(_)
DecimalValue(digits) ==
    IF digits = <<>> THEN 0
    ELSE 10 * DecimalValue(SubSeq(digits, 1, Len(digits) - 1))
           + ((CHOOSE i \in 1..10 : DIGITS[i] = digits[Len(digits)]) - 1)

\* faulty variant: zero is refused, as by a parse to NonZeroUsize
ParseUsizeNonZero(str) ==
    LET digits == IF Len(str) > 0 /\ str[1] = "+" THEN Tail(str) ELSE str
    IN  IF digits = <<>> \/ \E i \in 1..Len(digits) : digits[i] \notin Range(DIGITS)
        THEN [ok |-> FALSE, value |-> 0]
        ELSE [ok |-> DecimalValue(digits) # 0, value |-> DecimalValue(digits)]

\* str::parse::<usize>: decimal digits after an optional '+'; the empty
\* string, a lone sign, '-' and any other character give Err.  (A value
\* above usize::MAX gives Err too; it needs 20 digits, more than MaxArgLen.)
ParseUsize(str) ==
    LET digits == IF Len(str) > 0 /\ str[1] = "+" THEN Tail(str) ELSE str
    IN  IF digits = <<>> \/ \E i \in 1..Len(digits) : digits[i] \notin Range(DIGITS)
        THEN [ok |-> FALSE, value |-> 0]
        ELSE [ok |-> TRUE, value |-> DecimalValue(digits)]

\* lines 248-251: args.get(3).and_then(|s| s.parse().ok()).unwrap_or(DEFAULT_TOTAL_KEYS)
TotalKeysOf(argv) ==
    IF Len(argv) >= 4 /\ ParseUsize(argv[4]).ok
    THEN ParseUsize(argv[4]).value
    ELSE DEFAULT_TOTAL_KEYS

\* the characters and the strings given as the total_keys argument
ArgChars == {"0", "1", "7", "+", "-", "x"}
ArgStrings == UNION {[1..n -> ArgChars] : n \in 0..MaxArgLen}

\* the command lines: too few arguments, no total_keys, a total_keys, too many
CommandLines ==
    { <<"miner">>, <<"miner", "Name">>, <<"miner", "Name", "a@b">> }
      \cup { <<"miner", "Name", "a@b", str>> : str \in ArgStrings }
      \cup { <<"miner", "Name", "a@b", str, "more">> : str \in {<<"1">>, <<"x">>} }

InitArgs ==
    /\ Idle
    /\ total_keys = 0
    /\ args \in CommandLines
    /\ main = "start"
    /\ tested = None
    /\ hit = [called |-> FALSE, ret |-> None]

\* lines 239-246: the usage message and exit(1)
CheckUsage ==
    /\ main = "start"
    /\ main' = IF Len(args) < 3 \/ Len(args) > 4 THEN "exit1" ELSE "parse"
    /\ UNCHANGED <<total_keys, args, reporter, tested, hit, pool>>

\* lines 248-258: total_keys and the Config
ParseTotal ==
    /\ main = "parse"
    /\ total_keys' = TotalKeysOf(args)
    /\ main' = "configured"
    /\ UNCHANGED <<args, reporter, tested, hit, pool>>

NextArgs == CheckUsage \/ ParseTotal

SpecArgs == InitArgs /\ [][NextArgs]_vars

(* ------------------------ derived quantities --------------------------- *)
\* workers inside the persistence section of save_key
InSave == {w \in Workers : pc[w] \in {"public", "private", "log"}}

\* workers that have incremented keys_found for the match of their current
\* slot and have not yet counted that slot in keys_checked
Uncounted == {w \in Workers : pc[w] \in {"lock", "public", "private", "log", "count"}
                                /\ call[w] # 0}

\* workers between a successful generate_key and the count of line 201
Pending == {w \in Workers : pc[w] \in {"insert", "fetch_add", "lock", "public",
                                        "private", "log", "count"}}

\* the save_key calls made for a fingerprint
SavesOf(f) == {i \in DOMAIN saves : saves[i].key_id = f}

\* the complete artifact triple of a save_key call
Triple(s) ==
    /\ [index |-> s.index, key_id |-> s.key_id, complete |-> TRUE] \in public_keys
    /\ [index |-> s.index, key_id |-> s.key_id, complete |-> TRUE] \in private_keys
    /\ \E i \in DOMAIN found_keys_txt :
         found_keys_txt[i] = LogLine(s.index, s.key_id, s.pattern, TRUE)

finished == run # "mining"

(* ------------------------------- C1 ------------------------------------ *)
\* C1 as stated: in every reachable state matches-found (keys_found) is at
\* most attempts-completed (keys_checked).  A worker increments keys_found
\* at line 194 and keys_checked only at line 201, after save_key.
C1_FoundAtMostChecked == keys_found <= keys_checked

\* C1, amended: keys_found exceeds keys_checked by at most the number of
\* workers that are between the two increments for a new match, and once
\* mine_keys has returned keys_found <= keys_checked.
C1_FoundAtMostCheckedPlusUncounted ==
    /\ keys_found <= keys_checked + Cardinality(Uncounted)
    /\ finished => keys_found <= keys_checked

\* a match has been recorded in keys_found and its attempt is not counted yet
C1_Witness ==
    /\ keys_found = keys_checked + 1
    /\ \E w \in Workers : pc[w] = "private" /\ call[w] # 0

(* ------------------------------- C2 ------------------------------------ *)
\* C2 as stated: the indices of the lines of found_keys.txt, in the order
\* the lines are appended, are 0, 1, 2, ... without gaps, one line per
\* distinct matched fingerprint.
C2_LogIndicesInOrder ==
    /\ \A i \in DOMAIN found_keys_txt : found_keys_txt[i].index = i - 1
    /\ finished => Len(found_keys_txt) = Cardinality(FOUND_KEYS)

\* C2, amended: the indices given to save_key are 0, 1, 2, ... in the order
\* they are assigned, one per distinct matched fingerprint; the lines of
\* found_keys.txt carry pairwise distinct indices, each the line of one
\* save_key call, in the order the workers enter the exclusive section;
\* when mine_keys has returned the complete lines are those of the calls
\* that returned Ok.
C2_IndicesAssignedInOrder ==
    /\ \A i \in DOMAIN saves : saves[i].index = i - 1
    /\ \A i, j \in DOMAIN saves : saves[i].key_id = saves[j].key_id => i = j
    /\ {saves[i].key_id : i \in DOMAIN saves}
         = FOUND_KEYS \ {key_id[w] : w \in {v \in Workers : pc[v] = "fetch_add"}}
    /\ \A i, j \in DOMAIN found_keys_txt :
         found_keys_txt[i].index = found_keys_txt[j].index => i = j
    /\ \A i \in DOMAIN found_keys_txt :
         \E k \in DOMAIN saves :
            /\ saves[k].index = found_keys_txt[i].index
            /\ saves[k].key_id = found_keys_txt[i].key_id
            /\ saves[k].pattern = found_keys_txt[i].pattern
    /\ finished =>
         {l.index : l \in {m \in Range(found_keys_txt) : m.complete}}
           = {saves[k].index : k \in {n \in DOMAIN saves : saves[n].result = "Ok"}}

\* two matches were saved, and the line of index 1 was appended first
C2_Witness ==
    /\ finished
    /\ Len(found_keys_txt) = 2
    /\ found_keys_txt[1].index = 1 /\ found_keys_txt[1].complete
    /\ found_keys_txt[2].index = 0 /\ found_keys_txt[2].complete

(* ------------------------------- C3 ------------------------------------ *)
C3_IndexIsPreIncrement ==
    \A w \in Workers :
       (pc[w] = "fetch_add" /\ pc'[w] = "lock") =>
          /\ keys_found' = keys_found + 1
          /\ found'[w] = keys_found
          /\ saves'[Len(saves')].index = keys_found
          /\ saves'[Len(saves')].key_id = key_id[w]

C3_IndicesDistinct ==
    /\ \A i, j \in DOMAIN saves : saves[i].index = saves[j].index => i = j
    /\ \A v, w \in Uncounted : found[v] = found[w] => v = w
    /\ \A f \in public_keys \cup private_keys :
         \E i \in DOMAIN saves : saves[i].index = f.index /\ saves[i].key_id = f.key_id

\* C3: every new match gets as index the value keys_found had just before
\* its increment, no two save_key calls of a run get the same index, and so
\* every public_key_<index>.asc / private_key_<index>.asc holds the key of
\* the one call with that index.
C3_UniquePreIncrementIndex ==
    [](C3_IndicesDistinct) /\ [][C3_IndexIsPreIncrement]_vars

\* two workers are inside save_key calls of the same run at once
C3_Witness ==
    \E v, w \in Workers :
       /\ v # w
       /\ pc[v] = "private" /\ pc[w] = "lock"
       /\ found[v] = 1 /\ found[w] = 0

(* ------------------------------- C4 ------------------------------------ *)
C4_OneTruePerValue ==
    \A f \in Fingerprints :
       /\ inserts[f].trues = (IF inserts[f].calls > 0 THEN 1 ELSE 0)
       /\ f \in FOUND_KEYS <=> inserts[f].calls > 0

C4_NeverRemoved == FOUND_KEYS \subseteq FOUND_KEYS'

\* C4: of all the FOUND_KEYS.insert calls made with one fingerprint exactly
\* one returns true, and a fingerprint once inserted stays in the set.
C4_InsertOnce == [](C4_OneTruePerValue) /\ [][C4_NeverRemoved]_vars

\* two workers held the same fingerprint at line 193 and both have inserted it
C4_Witness ==
    \E v, w \in Workers :
       /\ v # w
       /\ key_id[v] = key_id[w] /\ key_id[v] # None
       /\ pc[v] = "fetch_add" /\ pc[w] = "count"
       /\ inserts[key_id[v]].calls = 2

(* ------------------------------- C5 ------------------------------------ *)
C5_OneInSection ==
    /\ Cardinality(InSave) <= 1
    /\ \A w \in InSave : LOG_MUTEX = w
    /\ InSave = {} => LOG_MUTEX = 0

C5_WritesByHolder ==
    (files' # files) =>
       \E w \in Workers :
          /\ InSave = {w}
          /\ LOG_MUTEX = w
          /\ \A v \in Workers \ {w} : pc'[v] = pc[v] /\ pc[v] \notin {"public", "private", "log"}

\* C5: at most one worker is inside the persistence section of save_key,
\* and every write to the public file, the private file or found_keys.txt
\* is made by the holder of LOG_MUTEX while no other worker is in the
\* section, so the writes of two calls never interleave.
C5_SaveExclusive == [](C5_OneInSection) /\ [][C5_WritesByHolder]_vars

\* a worker waits at LOG_MUTEX.lock() while another one is between its writes
C5_Witness ==
    \E v, w \in Workers :
       /\ pc[v] = "log" /\ pc[w] = "lock"
       /\ LOG_MUTEX = v

(* ------------------------------- C6 ------------------------------------ *)
\* C6: attempts-completed never exceeds the attempt budget, in every state
\* and so at run completion: keys_checked <= total_keys.
C6_CheckedWithinBudget == keys_checked <= total_keys

\* a run of at least two slots has returned with every slot counted
C6_Witness ==
    /\ finished
    /\ total_keys >= 2
    /\ keys_checked = total_keys
    /\ keys_found >= 1

(* ------------------------------- C7 ------------------------------------ *)
\* every slot of the run generated the fingerprint f
AlwaysReturned(f) == total_keys >= 1 /\ inserts[f].calls = total_keys

C8_EveryMatchHasTriple ==
    finished => \A f \in FOUND_KEYS : \E i \in SavesOf(f) : Triple(saves[i])

\* C8, amended: when the run has completed, every fingerprint in FOUND_KEYS
\* has exactly one save_key call; it has its complete triple, carrying the
\* index of that call, if and only if the call returned Ok, and every call
\* that returned Err was reported on the error stream.
C8_TripleIffSaveOk ==
    finished =>
       /\ \A f \in FOUND_KEYS :
            \E i \in SavesOf(f) :
               /\ SavesOf(f) = {i}
               /\ saves[i].result \in {"Ok", "Err"}
               /\ saves[i].result = "Ok" <=> Triple(saves[i])
       /\ stderr = Cardinality({i \in DOMAIN saves : saves[i].result = "Err"})

\* the run has completed with one match fully persisted and one whose save failed
C8_Witness ==
    /\ finished
    /\ \E i, j \in DOMAIN saves :
         /\ saves[i].result = "Ok" /\ Triple(saves[i])
         /\ saves[j].result = "Err" /\ ~Triple(saves[j])

(* ------------------------------- C9 ------------------------------------ *)
C9_FailureChangesNothing ==
    \A w \in Workers :
       (pc[w] = "generate" /\ pc'[w] = "idle") =>
          /\ UNCHANGED <<keys_checked, keys_found, FOUND_KEYS, LOG_MUTEX, files,
                         stderr, nextSlot, stopped, saves, inserts>>
          /\ attempts'.err = attempts.err + 1
          /\ attempts'.ok = attempts.ok

C9_FailuresNotCounted ==
    /\ attempts.requests = attempts.ok + attempts.err
    /\ attempts.requests + attempts.skipped + Cardinality({w \in Workers :
          pc[w] \in {"check", "generate"}}) = nextSlot
    /\ keys_checked + Cardinality(Pending) + attempts.err = attempts.requests
    /\ finished =>
         /\ run = "Ok"
         /\ nextSlot = total_keys
         /\ keys_checked = total_keys - attempts.err - attempts.skipped

\* C9: a failed generate_key changes none of keys_checked, keys_found,
\* FOUND_KEYS and the files; its slot makes no second request, and the run
\* still hands out every slot and ends with keys_checked equal to the
\* number of slots whose generation succeeded.
C9_FailedGenerationDiscarded ==
    [](C9_FailuresNotCounted) /\ [][C9_FailureChangesNothing]_vars

\* a run has completed in which one generation failed and the others were counted
C9_Witness ==
    /\ finished
    /\ total_keys >= 2
    /\ attempts.err = 1
    /\ keys_checked = total_keys - 1

(* ------------------------------- C10 ----------------------------------- *)
C10_SaveFailureStep ==
    \A w \in Workers :
       (pc[w] \in {"public", "private", "log"} /\ pc'[w] # pc[w]
          /\ saves'[call[w]].result = "Err") =>
          /\ pc'[w] = "count"
          /\ ~stopped'
          /\ LOG_MUTEX' = 0
          /\ stderr' = stderr + 1
          /\ UNCHANGED <<keys_checked, keys_found, FOUND_KEYS, nextSlot>>

C10_NoRollback ==
    /\ ~stopped
    /\ \A i \in DOMAIN saves :
         /\ saves[i].key_id \in FOUND_KEYS
         /\ SavesOf(saves[i].key_id) = {i}
    /\ keys_found = Cardinality({saves[i].key_id : i \in DOMAIN saves})
    /\ finished =>
         /\ run = "Ok"
         /\ nextSlot = total_keys
         /\ keys_checked = attempts.ok
         /\ \A i \in DOMAIN saves : saves[i].result # "running"

\* C10: a failed write in save_key is reported and nothing else: the
\* closure goes on to count the attempt, keys_found keeps its increment,
\* the fingerprint stays in FOUND_KEYS, no later attempt calls save_key for
\* it again, and the run hands out every remaining slot and returns Ok.
C10_SaveFailureKept ==
    [](C10_NoRollback) /\ [][C10_SaveFailureStep]_vars

\* the save of a match failed and was counted, and a second attempt that
\* generated the same fingerprint has passed the insert without a save
C10_Witness ==
    \E w \in Workers :
       /\ pc[w] = "count" /\ call[w] = 0
       /\ inserts[key_id[w]].calls = 2
       /\ \E i \in SavesOf(key_id[w]) : saves[i].result = "Err"
       /\ attempts.ok = 2 /\ keys_checked = 1 /\ keys_found = 1

(* ------------------------------- C11 ----------------------------------- *)
\* C11: with total_keys = 0 no slot is handed out and generate_key is never
\* called, both counters stay 0, FOUND_KEYS stays empty, no public or
\* private key file and no line of found_keys.txt is written, and mine_keys
\* can only return Ok.
C11_EmptyBudgetDoesNothing ==
    total_keys = 0 =>
       /\ nextSlot = 0
       /\ \A w \in Workers : pc[w] = "idle"
       /\ attempts = [requests |-> 0, ok |-> 0, err |-> 0, skipped |-> 0]
       /\ keys_checked = 0 /\ keys_found = 0
       /\ FOUND_KEYS = {}
       /\ public_keys = {} /\ private_keys = {} /\ found_keys_txt = <<>>
       /\ saves = <<>> /\ stderr = 0
       /\ run \in {"mining", "Ok"}

\* mine_keys has returned Ok for a budget of 0
C11_Witness == total_keys = 0 /\ run = "Ok"

(* ------------------------------- C15 ----------------------------------- *)
\* the budget check has made a slot a no-op, or the finished run made a
\* number of generator requests other than total_keys
BudgetCheckActed ==
    \/ attempts.skipped > 0
    \/ finished /\ attempts.requests # total_keys

\* C15 as stated says that for a budget N >= 1 some interleaving reaches a
\* state where the budget check has acted; stated of the completed runs
\* with N >= 1.  C15_BudgetCheckNeverActs shows that no run at all reaches
\* such a state.
C15_BudgetCheckChangesAttempts ==
    (finished /\ total_keys >= 1) => BudgetCheckActed

\* C15, amended: the budget check never fires.  A slot reaches its check
\* before its own count, and only total_keys slots exist, so every load of
\* keys_checked at line 186 reads less than total_keys, no slot is a no-op,
\* and a run that returns has requested the generator exactly total_keys
\* times, in every interleaving.
C15_BudgetCheckNeverActs ==
    /\ ~BudgetCheckActed
    /\ (\E w \in Workers : pc[w] = "check") => keys_checked < total_keys
    /\ finished => attempts.requests = total_keys

\* the last two slots of a run are at the budget check at the same time,
\* all earlier ones counted
C15_Witness ==
    /\ total_keys = 3
    /\ keys_checked = total_keys - 2
    /\ nextSlot = total_keys
    /\ \A w \in {1, 2} : pc[w] = "check"

(* ------------------------------- C20 ----------------------------------- *)
C20_CountAfterSave ==
    \A w \in Workers :
       (pc[w] = "count" /\ pc'[w] = "idle" /\ call[w] # 0) =>
          /\ saves[call[w]].result \in {"Ok", "Err"}
          /\ LOG_MUTEX # w

C20_QuietAtBudget ==
    /\ keys_found <= Cardinality(FOUND_KEYS)
    /\ keys_checked = total_keys =>
         /\ \A w \in Workers : pc[w] = "idle"
         /\ LOG_MUTEX = 0
         /\ \A i \in DOMAIN saves : saves[i].result \in {"Ok", "Err"}
         /\ keys_found = Cardinality(FOUND_KEYS)
         /\ keys_found = Len(saves)

\* C20: the attempt of a new match is counted in keys_checked only after
\* its save_key call has returned, keys_found never exceeds the size of
\* FOUND_KEYS, and in every state where keys_checked = total_keys no worker
\* is in or before a save_key call and keys_found = |FOUND_KEYS| = the
\* number of save_key calls made.
C20_NoSavePendingAtBudget ==
    [](C20_QuietAtBudget) /\ [][C20_CountAfterSave]_vars

\* the last count of a run with two saved matches has just been made
C20_Witness ==
    /\ total_keys >= 2
    /\ keys_checked = total_keys
    /\ run = "mining"
    /\ keys_found = 2 /\ Len(saves) = 2

(* ------------------------------- C16 ----------------------------------- *)
CompleteFile(dir, index, id) ==
    [index |-> index, key_id |-> id, complete |-> TRUE] \in dir

C16_LaterStepsNeedEarlier ==
    /\ \A f \in private_keys : CompleteFile(public_keys, f.index, f.key_id)
    /\ \A i \in DOMAIN found_keys_txt :
         /\ CompleteFile(public_keys, found_keys_txt[i].index, found_keys_txt[i].key_id)
         /\ CompleteFile(private_keys, found_keys_txt[i].index, found_keys_txt[i].key_id)
    /\ \A w \in Workers :
         /\ pc[w] \in {"private", "log"} => CompleteFile(public_keys, found[w], key_id[w])
         /\ pc[w] = "log" => CompleteFile(private_keys, found[w], key_id[w])
         /\ pc[w] \in {"lock", "public"} =>
              \A f \in public_keys \cup private_keys \cup Range(found_keys_txt) :
                 f.index # found[w]
    /\ (\A w \in Workers : pc[w] \notin {"public", "private", "log"}) => LOG_MUTEX = 0

C16_ReleasedOnReturn ==
    \A w \in Workers :
       (pc[w] \in {"public", "private", "log"}
          /\ pc'[w] \notin {"public", "private", "log"}) =>
          /\ LOG_MUTEX = w /\ LOG_MUTEX' = 0
          /\ saves'[call[w]].result \in {"Ok", "Err"}
          /\ saves'[call[w]].result = "Ok" <=> (pc[w] = "log" /\ Triple(saves[call[w]])')

\* C16: save_key writes the public file, then the private file, then the
\* log line, and a failing step skips the later ones: a private file exists
\* only with its complete public file, a line of found_keys.txt only with
\* both complete files of its index, and the mutex is free again after
\* every return of save_key, Ok or Err.
C16_OrderedWritesAndRelease ==
    [](C16_LaterStepsNeedEarlier) /\ [][C16_ReleasedOnReturn]_vars

\* save_key has failed on the private key after a complete public key, and
\* the mutex is free
C16_Witness ==
    /\ LOG_MUTEX = 0
    /\ \E i \in DOMAIN saves :
         /\ saves[i].result = "Err"
         /\ CompleteFile(public_keys, saves[i].index, saves[i].key_id)
         /\ [index |-> saves[i].index, key_id |-> saves[i].key_id, complete |-> FALSE]
              \in private_keys
         /\ \A j \in DOMAIN found_keys_txt : found_keys_txt[j].index # saves[i].index

(* ------------------------------- C19 ----------------------------------- *)
AllSlotsProcessed ==
    /\ finished
    /\ run = "Ok"
    /\ nextSlot = total_keys
    /\ attempts.requests + attempts.skipped = total_keys
    /\ \A w \in Workers : pc[w] = "idle"

\* C19: under fair scheduling every run ends with mine_keys returned Ok and
\* every one of the total_keys slots processed, whatever the slots'
\* outcomes, and a worker waiting at LOG_MUTEX.lock() gets the mutex.
C19_SearchTerminates ==
    /\ <>AllSlotsProcessed
    /\ \A w \in Workers : (pc[w] = "lock") ~> (pc[w] = "public")

\* a run has ended in which a generation failed, a save failed and a save
\* succeeded
C19_Witness ==
    /\ AllSlotsProcessed
    /\ attempts.err >= 1
    /\ \E i, j \in DOMAIN saves : saves[i].result = "Err" /\ saves[j].result = "Ok"

(* ------------------------------- C12 ----------------------------------- *)
\* C12: display_progress leaves its loop only once it has read
\* keys_checked >= total, and in every run in which keys_checked reaches
\* total the completion message "Done!" is emitted, so it has been emitted
\* when the process has ended.
C12_CompletionEmitted ==
    /\ rpc = "done" => (keys_checked >= total_keys /\ pb.msg = "Done!")
    /\ (main = "exit" /\ keys_checked >= total_keys) => rpc = "done"

(* ------------------------------- C18 ----------------------------------- *)
\* C18 as stated: the speed shown on a poll is current divided by
\* max(1, elapsed whole seconds), also in the first second.
C18_SpeedDividesByMaxOne ==
    pb.msg = "progress" =>
       pb.speed = pb.pos \div (IF pb.secs >= 1 THEN pb.secs ELSE 1)

\* C18, amended: the speed shown on a poll is the integer quotient of
\* current by the elapsed whole seconds when at least one second has
\* elapsed, and 0 in the first second, whatever current is; current is the
\* value of keys_checked read at line 220, which is also the position shown.
C18_SpeedZeroInFirstSecond ==
    pb.msg = "progress" =>
       /\ pb.secs = 0 => pb.speed = 0
       /\ pb.secs >= 1 =>
            /\ pb.speed * pb.secs <= pb.pos
            /\ pb.pos < (pb.speed + 1) * pb.secs
       /\ rpc = "while" => pb.pos = rcurrent

\* a poll in the first second has shown a position above 0 with speed 0
C18_Witness ==
    /\ pb.msg = "progress"
    /\ pb.secs = 0
    /\ pb.pos >= 1
    /\ pb.speed = 0

(* ------------------------------- C13 ----------------------------------- *)
\* the characters at offsets 24..31 of a string of at least 32 characters
Window(f) == [i \in 1..8 |-> f[24 + i]]

\* C13: contains(f) is Some(p) exactly when f has at least 40 characters
\* and its window [24, 32) is in the catalog that generate_patterns built,
\* and then p is that window; otherwise it is None.
C13_ContainsIffWindowInCatalog ==
    hit.called =>
       IF Len(tested) >= 40 /\ Window(tested) \in generate_patterns
       THEN hit.ret = Window(tested)
       ELSE hit.ret = None

\* contains was called with 39 characters whose window is a pattern, and
\* returned None
C13_Witness ==
    /\ hit.called
    /\ Len(tested) = 39
    /\ Window(tested) = <<"D","E","A","D","B","E","E","F">>
    /\ hit.ret = None

(* ------------------------------- C17 ----------------------------------- *)
\* C17: every member of the catalog has 8 characters, all of them
\* hexadecimal digits 0-9, A-F, so that it can be the window of a
\* hexadecimal fingerprint.  Stated of the member that a call of contains
\* has returned; the strings tested have every member as their window.
C17_CatalogIsHex ==
    \A p \in PATTERN_CACHE :
       (hit.called /\ hit.ret = p) =>
          /\ Len(p) = 8
          /\ \A i \in 1..Len(p) : p[i] \in Range(HEX_DIGITS)

(* ------------------------------- C14 ----------------------------------- *)
\* a decimal numeral, with an optional leading '+'
IsNumeral(str) ==
    /\ Len(str) >= 1
    /\ \A i \in 1..Len(str) : str[i] \in Range(DIGITS) \/ (i = 1 /\ str[i] = "+")
    /\ str # <<"+">>

NumeralValue(str) == DecimalValue(IF str[1] = "+" THEN Tail(str) ELSE str)

====
